---- MODULE Spec2Model ----
(***************************************************************************)
(* State-machine model of hyper_echo_server: the request dispatcher        *)
(* (process_request / websocket_upgrade), the HTTP echo handler (echo),    *)
(* the websocket echo loop (echo_ws) and the tower-http logging hooks      *)
(* (OnRequestLogger / OnResponseLogger / BodyLogger), plus the stand-alone *)
(* EchoServer of lib.rs.                                                   *)
(*                                                                         *)
(* One connection is modelled.  `conn` is the connection as configured by  *)
(* make_service(http_log_level, ws_logging_enabled, ..); `twin` is the     *)
(* same connection fed the same requests, frames and I/O outcomes but      *)
(* built with logging switched off (HttpLogLevel::None, ws logging false). *)
(***************************************************************************)
EXTENDS Integers, Sequences, FiniteSets, TLC

\* ------------------------------------------------------------------ bounds

\* requests served on one connection
MaxRequests == 2
\* frames the peer sends in one websocket session
MaxFrames == 2

\* ------------------------------------------------------- program constants

StatusOk == 200
StatusBadRequest == 400
StatusSwitchingProtocols == 101

\* ------------------------------------------------------------------- data

HttpLogLevel == {"None", "Uri", "UriHeaders", "UriHeadersBody"}

Methods == {"GET", "POST"}
Versions == {"HTTP/1.0", "HTTP/1.1"}
\* http::Response::builder() starts from Version::default()
DefaultVersion == "HTTP/1.1"

\* A header multimap is a set of <<name, value>> pairs.
NegotiationHeaders ==
    { <<"connection", "upgrade">>, <<"upgrade", "websocket">>,
      <<"sec-websocket-key", "k">> }
WsVersionHeaders ==
    { <<"sec-websocket-version", "13">>, <<"sec-websocket-version", "12">> }
OtherHeaders == { <<"x-test", "1">> }

HeaderSets ==
    { n \cup v \cup o :
        n \in SUBSET NegotiationHeaders,
        v \in { w \in SUBSET WsVersionHeaders : Cardinality(w) <= 1 },
        o \in SUBSET OtherHeaders }

\* A body is the sequence of chunks its stream yields.
Bodies == { <<>>, <<"hi">>, <<"hi", "!">> }

Requests ==
    [ method : Methods, uri : {"/"}, version : Versions,
      headers : HeaderSets, body : Bodies ]

NoReq == [ method |-> "none" ]
NoResp == [ status |-> 0 ]
\* the panic of a failed `.unwrap()`
Panic == [ status |-> -1 ]

\* Payload byte strings: "", "hi", U+00E9, and three that are not UTF-8: a
\* byte that never occurs, a truncated sequence and an encoded surrogate.
ValidPayloads == { <<>>, <<104, 105>>, <<195, 169>> }
InvalidPayloads == { <<255>>, <<195>>, <<237, 160, 128>> }
Payloads == ValidPayloads \cup InvalidPayloads

DataOpCodes == {"Text", "Binary"}
OpCodes == DataOpCodes \cup {"Close", "Pong"}

Frames ==
    [ fin : BOOLEAN, opcode : DataOpCodes, payload : Payloads ]
    \cup [ fin : {TRUE}, opcode : {"Close", "Pong"}, payload : { <<>> } ]

NoFrame == [ opcode |-> "none" ]

\* ------------------------------------------------- String::from_utf8

IsCont(b) == b >= 128 /\ b <= 191

\* Length of the well-formed UTF-8 sequence that starts p at index i,
\* 0 when there is none (core::str::from_utf8's validation table).
Utf8SeqLen(p, i) ==
    LET b0 == p[i]
        has(k) == i + k <= Len(p)
        cont(k) == has(k) /\ IsCont(p[i + k])
        in(k, lo, hi) == has(k) /\ p[i + k] >= lo /\ p[i + k] <= hi
    IN  CASE b0 < 128 -> 1
          [] b0 >= 194 /\ b0 <= 223 -> IF cont(1) THEN 2 ELSE 0
          [] b0 = 224 -> IF in(1, 160, 191) /\ cont(2) THEN 3 ELSE 0
          [] (b0 >= 225 /\ b0 <= 236) \/ b0 = 238 \/ b0 = 239 ->
                IF cont(1) /\ cont(2) THEN 3 ELSE 0
          [] b0 = 237 -> IF in(1, 128, 159) /\ cont(2) THEN 3 ELSE 0
          [] b0 = 240 -> IF in(1, 144, 191) /\ cont(2) /\ cont(3) THEN 4 ELSE 0
          [] b0 >= 241 /\ b0 <= 243 -> IF cont(1) /\ cont(2) /\ cont(3) THEN 4 ELSE 0
          [] b0 = 244 -> IF in(1, 128, 143) /\ cont(2) /\ cont(3) THEN 4 ELSE 0
          [] OTHER -> 0

RECURSIVE IsUtf8From(_, _)
IsUtf8From(p, i) ==
    IF i > Len(p) THEN TRUE
    ELSE LET n == Utf8SeqLen(p, i)
         IN  n > 0 /\ IsUtf8From(p, i + n)

IsUtf8(p) == IsUtf8From(p, 1)

\* String::from_utf8(frame.payload.to_vec()): Ok(String) owning the same
\* bytes, or Err(FromUtf8Error).
from_utf8(bytes) ==
    IF IsUtf8(bytes) THEN [ ok |-> TRUE, string |-> bytes ]
    ELSE [ ok |-> FALSE ]

\* Frame::new(true, opcode, None, Payload::Owned(payload.into()))
EchoFrame(opcode, string) ==
    [ fin |-> TRUE, opcode |-> opcode, payload |-> string ]

\* --------------------------------------------- fastwebsockets::upgrade

HeaderValues(headers, name) == { h[2] : h \in { x \in headers : x[1] = name } }

header_contains_value(headers, name, value) == value \in HeaderValues(headers, name)

is_upgrade_request(request) ==
    /\ header_contains_value(request.headers, "connection", "upgrade")
    /\ header_contains_value(request.headers, "upgrade", "websocket")

\* Display text of a WebSocketError
ErrorText(e) ==
    CASE e = "MissingSecWebSocketKey" -> "Sec-WebSocket-Key header is missing"
      [] e = "InvalidSecWebsocketVersion" -> "Invalid Sec-WebSocket-Version header"

\* Response::builder()....body(b): Err unless the status code is in 100..=999
ResponseBuilder(status, version, headers, body) ==
    IF status >= 100 /\ status <= 999
    THEN [ status |-> status, version |-> version, headers |-> headers, body |-> body ]
    ELSE Panic

\* upgrade(&mut request): the handshake response and the upgrade future, or
\* the WebSocketError of a request that carries no key or not version 13.
upgrade(request) ==
    LET keys == HeaderValues(request.headers, "sec-websocket-key")
    IN  IF keys = {} THEN [ ok |-> FALSE, err |-> "MissingSecWebSocketKey" ]
        ELSE IF HeaderValues(request.headers, "sec-websocket-version") # {"13"}
        THEN [ ok |-> FALSE, err |-> "InvalidSecWebsocketVersion" ]
        ELSE [ ok |-> TRUE,
               response |->
                 ResponseBuilder(StatusSwitchingProtocols, DefaultVersion,
                    { <<"connection", "upgrade">>, <<"upgrade", "websocket">> }
                    \cup { <<"sec-websocket-accept", k>> : k \in keys },
                    <<>>) ]

\* ------------------------------------------------------ the handlers

\* service.rs echo
echo(request) ==
    LET response == ResponseBuilder(StatusOk, request.version, {}, request.body)
    IN  IF response = Panic THEN Panic
        ELSE [ response EXCEPT !.headers = request.headers ]

\* Mutant of to_response: a status code the builder rejects, so the unwrap
\* panics.
to_response_bad_status(e) ==
    ResponseBuilder(40, DefaultVersion, {}, << ErrorText(e) >>)

\* Mutant of to_response: the error text is dropped from the body.
to_response_no_body(e) ==
    ResponseBuilder(StatusBadRequest, DefaultVersion, {}, <<>>)

to_response(e) ==
    ResponseBuilder(StatusBadRequest, DefaultVersion, {}, << ErrorText(e) >>)

\* lib.rs echo, the service of EchoServer::run
lib_echo(request) ==
    [ status |-> StatusOk, version |-> DefaultVersion, headers |-> {},
      body |-> << "hello" >> ]

\* ------------------------------------------------- tower_logger.rs hooks

log_request_uri(request) ==
    [ ev |-> "request_uri", method |-> request.method, uri |-> request.uri ]

log_response_uri(response) == [ ev |-> "response_uri", status |-> response.status ]

log_headers(headers, direction) ==
    [ ev |-> "headers", direction |-> direction, headers |-> headers ]

log_latency == [ ev |-> "latency" ]

log_body_frame(chunk) == [ ev |-> "body", chunk |-> chunk ]

\* Mutant of on_request: the UriHeaders arm logs the headers only.
on_request_headers_without_uri(log_level, request) ==
    CASE log_level = "None" -> <<>>
      [] log_level = "Uri" -> << log_request_uri(request) >>
      [] log_level \in {"UriHeaders", "UriHeadersBody"} ->
            << log_headers(request.headers, "Incoming") >>

on_request(log_level, request) ==
    CASE log_level = "None" -> <<>>
      [] log_level = "Uri" -> << log_request_uri(request) >>
      [] log_level \in {"UriHeaders", "UriHeadersBody"} ->
            << log_request_uri(request), log_headers(request.headers, "Incoming") >>

\* Mutant of on_response: the None arm falls through to log_latency instead
\* of returning.
on_response_latency_at_none(log_level, response) ==
    CASE log_level = "None" -> << log_latency >>
      [] log_level = "Uri" -> << log_response_uri(response), log_latency >>
      [] log_level \in {"UriHeaders", "UriHeadersBody"} ->
            << log_response_uri(response),
               log_headers(response.headers, "Outgoing"), log_latency >>

on_response(log_level, response) ==
    CASE log_level = "None" -> <<>>
      [] log_level = "Uri" -> << log_response_uri(response), log_latency >>
      [] log_level \in {"UriHeaders", "UriHeadersBody"} ->
            << log_response_uri(response),
               log_headers(response.headers, "Outgoing"), log_latency >>

\* Mutant of on_body_chunk: the chunk is logged from UriHeaders up.
on_body_chunk_from_headers_up(log_level, chunk) ==
    IF log_level \in {"UriHeaders", "UriHeadersBody"}
    THEN << log_body_frame(chunk) >> ELSE <<>>

on_body_chunk(log_level, chunk) ==
    IF log_level = "UriHeadersBody" THEN << log_body_frame(chunk) >> ELSE <<>>

\* --------------------------------------------------------- WsLogger calls

\* A call on the WsLogger writes its line only when ws logging is enabled.
WsEmit(ws_logging_enabled, event) ==
    IF ws_logging_enabled THEN << event >> ELSE <<>>

WsLogCall(c, ws_logging_enabled, event) ==
    [ c EXCEPT !.wsCalls = Append(@, event),
               !.wsLog = @ \o WsEmit(ws_logging_enabled, event) ]

log_connection_established(c, ws_logging_enabled) ==
    WsLogCall(c, ws_logging_enabled, [ ev |-> "established" ])

log_frame(c, ws_logging_enabled, payload) ==
    WsLogCall(c, ws_logging_enabled, [ ev |-> "frame", payload |-> payload ])

log_duration(c, ws_logging_enabled) ==
    WsLogCall(c, ws_logging_enabled, [ ev |-> "duration" ])

log_connection_closed(c, ws_logging_enabled) ==
    WsLogCall(c, ws_logging_enabled, [ ev |-> "closed" ])

warn(c, message) == [ c EXCEPT !.warns = Append(@, message) ]

\* ------------------------------------------------------------------ state

VARIABLES
    server,              \* "EchoService" (service.rs) or "EchoServer" (lib.rs)
    http_log_level,      \* make_service's HttpLogLevel
    ws_logging_enabled,  \* make_service's ws_logging_enabled
    conn,                \* the connection
    twin                 \* the same connection built with logging off

vars == << server, http_log_level, ws_logging_enabled, conn, twin >>

TwinLevel == "None"
TwinWsLogging == FALSE

\* pc:   the request-serving unit: "idle" between requests, "spawned" inside
\*       websocket_upgrade after tokio::spawn, "body" while the response body
\*       is polled, "upgraded" once the 101 response is out, "panicked"
\* failedBefore: an earlier request of the connection was a failed upgrade
\* task: the spawned unit: "none", "awaiting" (fut.await), "open" (suspended
\*       in read_frame), "writing" (suspended in write_frame), "closed"
\*       (echo_ws returned), "panicked", "upgrade_failed"
InitConn ==
    [ pc |-> "idle", reqCount |-> 0, req |-> NoReq, resp |-> NoResp,
      handshake |-> NoResp, respCount |-> 0, branch |-> "none", sent |-> 0,
      httpLog |-> <<>>, failedBefore |-> FALSE,
      task |-> "none", spawned |-> 0, sessions |-> 0, pending |-> NoFrame,
      rx |-> <<>>, tx |-> <<>>, wsCalls |-> <<>>, wsLog |-> <<>>, warns |-> <<>> ]

Init ==
    /\ \/ /\ server = "EchoService"
          /\ http_log_level \in HttpLogLevel
          /\ ws_logging_enabled \in BOOLEAN
       \/ /\ server = "EchoServer"
          /\ http_log_level = "None"
          /\ ws_logging_enabled = FALSE
    /\ conn = InitConn
    /\ twin = InitConn

\* --------------------------------------------------- the request-serving unit

\* The service future resolves: Ok(response), or the unwinding of a panic.
ServiceReturn(c, branch, response) ==
    IF response = Panic
    THEN [ c EXCEPT !.pc = "panicked", !.branch = branch ]
    ELSE [ c EXCEPT !.pc = "returned", !.branch = branch, !.resp = response,
                    !.respCount = @ + 1 ]

\* Mutant of websocket_upgrade: the handshake response is returned but no
\* unit is spawned to await the upgrade.
websocket_upgrade_no_spawn(c, request) ==
    LET u == upgrade(request)
    IN  IF u.ok
        THEN [ c EXCEPT !.pc = "spawned", !.branch = "upgrade",
                        !.handshake = u.response ]
        ELSE ServiceReturn(c, "upgrade_failed", to_response(u.err))

\* websocket_upgrade, up to and including tokio::spawn
websocket_upgrade(c, request) ==
    LET u == upgrade(request)
    IN  IF u.ok
        THEN [ c EXCEPT !.pc = "spawned", !.branch = "upgrade",
                        !.handshake = u.response,
                        !.task = "awaiting", !.spawned = @ + 1 ]
        ELSE ServiceReturn(c, "upgrade_failed", to_response(u.err))

\* Mutant of process_request: the Upgrade header alone selects the upgrade
\* branch.
process_request_upgrade_header_only(c, request) ==
    IF header_contains_value(request.headers, "upgrade", "websocket")
    THEN websocket_upgrade(c, request)
    ELSE ServiceReturn(c, "echo", echo(request))

\* Mutant of process_request: once an upgrade has failed, the connection
\* answers every request with that failure.
process_request_refuses_after_failure(c, request) ==
    IF c.failedBefore
    THEN ServiceReturn(c, "upgrade_failed", to_response("MissingSecWebSocketKey"))
    ELSE IF is_upgrade_request(request)
    THEN websocket_upgrade(c, request)
    ELSE ServiceReturn(c, "echo", echo(request))

process_request(c, request) ==
    IF is_upgrade_request(request)
    THEN websocket_upgrade(c, request)
    ELSE ServiceReturn(c, "echo", echo(request))

\* TraceLayer: on_request before the inner call
TraceRequest(c, log_level, request) ==
    [ c EXCEPT !.req = request, !.reqCount = @ + 1, !.resp = NoResp,
               !.handshake = NoResp, !.respCount = 0, !.branch = "none",
               !.sent = 0, !.httpLog = on_request(log_level, request) ]

\* TraceLayer: on_response once the inner future is ready
TraceResponse(c, log_level) ==
    IF c.pc = "returned"
    THEN [ c EXCEPT !.pc = "body", !.httpLog = @ \o on_response(log_level, c.resp) ]
    ELSE c

CallStep(c, log_level, request) ==
    TraceResponse(process_request(TraceRequest(c, log_level, request), request),
                  log_level)

\* websocket_upgrade after tokio::spawn: the handshake response is returned
UpgradeReturnStep(c, log_level) ==
    TraceResponse(ServiceReturn(c, "upgrade", c.handshake), log_level)

\* the response body yields its next chunk
BodyChunkStep(c, log_level) ==
    [ c EXCEPT !.sent = @ + 1,
               !.httpLog = @ \o on_body_chunk(log_level, c.resp.body[c.sent + 1]) ]

\* End of the response body.  After a 101 the connection is handed to the
\* upgrade future; otherwise the unit waits for the next request and keeps
\* nothing of the finished exchange.
EndOfStreamStep(c) ==
    IF c.resp.status = StatusSwitchingProtocols
    THEN [ c EXCEPT !.pc = "upgraded", !.req = NoReq, !.httpLog = <<>> ]
    ELSE [ c EXCEPT !.pc = "idle", !.req = NoReq, !.resp = NoResp,
                    !.respCount = 0, !.branch = "none", !.sent = 0,
                    !.httpLog = <<>>,
                    !.failedBefore = @ \/ c.branch = "upgrade_failed" ]

\* EchoServer::run's service_fn(echo)
LibCallStep(c, request) ==
    [ c EXCEPT !.pc = "lib_returned", !.req = request, !.reqCount = @ + 1,
               !.resp = lib_echo(request), !.respCount = 1, !.branch = "lib_echo" ]

\* serve_connection has written the response and reads the next request
LibSentStep(c) ==
    [ c EXCEPT !.pc = "idle", !.req = NoReq, !.resp = NoResp, !.respCount = 0,
               !.branch = "none" ]

Call(request) ==
    /\ server = "EchoService"
    /\ conn.pc = "idle"
    /\ conn.reqCount < MaxRequests
    /\ conn' = CallStep(conn, http_log_level, request)
    /\ twin' = CallStep(twin, TwinLevel, request)
    /\ UNCHANGED << server, http_log_level, ws_logging_enabled >>

UpgradeReturn ==
    /\ conn.pc = "spawned"
    /\ conn' = UpgradeReturnStep(conn, http_log_level)
    /\ twin' = UpgradeReturnStep(twin, TwinLevel)
    /\ UNCHANGED << server, http_log_level, ws_logging_enabled >>

BodyChunk ==
    /\ conn.pc = "body"
    /\ conn.sent < Len(conn.resp.body)
    /\ conn' = BodyChunkStep(conn, http_log_level)
    /\ twin' = BodyChunkStep(twin, TwinLevel)
    /\ UNCHANGED << server, http_log_level, ws_logging_enabled >>

EndOfStream ==
    /\ conn.pc = "body"
    /\ conn.sent = Len(conn.resp.body)
    /\ conn' = EndOfStreamStep(conn)
    /\ twin' = EndOfStreamStep(twin)
    /\ UNCHANGED << server, http_log_level, ws_logging_enabled >>

LibCall(request) ==
    /\ server = "EchoServer"
    /\ conn.pc = "idle"
    /\ conn.reqCount < MaxRequests
    /\ conn' = LibCallStep(conn, request)
    /\ twin' = LibCallStep(twin, request)
    /\ UNCHANGED << server, http_log_level, ws_logging_enabled >>

LibSent ==
    /\ conn.pc = "lib_returned"
    /\ conn' = LibSentStep(conn)
    /\ twin' = LibSentStep(twin)
    /\ UNCHANGED << server, http_log_level, ws_logging_enabled >>

\* ----------------------------------------------------------- the spawned unit

\* read_frame hands Text, Binary, Close and Pong frames to its caller; a
\* final Text frame that is not UTF-8 is an Err(InvalidUTF8) of the read.
read_frame_ok(frame) ==
    ~(frame.opcode = "Text" /\ frame.fin /\ ~IsUtf8(frame.payload))

\* fut.await is Ok(ws): echo_ws starts
echo_ws_enter(c, ws_enabled) ==
    log_connection_established(
        [ c EXCEPT !.task = "open", !.sessions = @ + 1 ], ws_enabled)

\* fut.await is Err(e)
UpgradeFutErrStep(c) ==
    warn([ c EXCEPT !.task = "upgrade_failed" ],
         "Failed to establish websocket connection")

\* the loop is left: log_connection_closed(entered), echo_ws returns
echo_ws_exit(c, ws_enabled) ==
    log_connection_closed([ c EXCEPT !.task = "closed", !.pending = NoFrame ],
                          ws_enabled)

\* Mutant of echo_ws_frame: no arm for Close, which falls to `_ => {}`.
echo_ws_frame_close_ignored(c, ws_enabled, frame) ==
    LET c1 == [ c EXCEPT !.rx = Append(@, frame) ]
    IN  CASE frame.opcode \in {"Text", "Binary"} ->
               LET payload == from_utf8(frame.payload)
               IN  IF ~payload.ok
                   THEN [ c1 EXCEPT !.task = "panicked" ]
                   ELSE [ log_frame(c1, ws_enabled, payload.string)
                            EXCEPT !.task = "writing",
                                   !.pending = EchoFrame(frame.opcode, payload.string) ]
          [] OTHER -> c1

\* Mutant of echo_ws_frame: the loop runs inside the request-serving unit
\* instead of a spawned one, so its panic unwinds that unit too.
echo_ws_frame_panic_propagates(c, ws_enabled, frame) ==
    LET c1 == [ c EXCEPT !.rx = Append(@, frame) ]
    IN  CASE frame.opcode \in {"Text", "Binary"} ->
               LET payload == from_utf8(frame.payload)
               IN  IF ~payload.ok
                   THEN [ c1 EXCEPT !.task = "panicked", !.pc = "panicked" ]
                   ELSE [ log_frame(c1, ws_enabled, payload.string)
                            EXCEPT !.task = "writing",
                                   !.pending = EchoFrame(frame.opcode, payload.string) ]
          [] frame.opcode = "Close" -> echo_ws_exit(c1, ws_enabled)
          [] OTHER -> c1

\* Mutant of echo_ws_frame: the frame is echoed only when ws logging is
\* enabled.
echo_ws_frame_only_when_logging(c, ws_enabled, frame) ==
    LET c1 == [ c EXCEPT !.rx = Append(@, frame) ]
    IN  CASE frame.opcode \in {"Text", "Binary"} ->
               LET payload == from_utf8(frame.payload)
               IN  IF ~payload.ok
                   THEN [ c1 EXCEPT !.task = "panicked" ]
                   ELSE IF ~ws_enabled THEN c1
                   ELSE [ log_frame(c1, ws_enabled, payload.string)
                            EXCEPT !.task = "writing",
                                   !.pending = EchoFrame(frame.opcode, payload.string) ]
          [] frame.opcode = "Close" -> echo_ws_exit(c1, ws_enabled)
          [] OTHER -> c1

\* Mutant of echo_ws_frame: a payload that is not UTF-8 is handled as a
\* protocol error and the loop is left in the orderly way.
echo_ws_frame_invalid_text_closes(c, ws_enabled, frame) ==
    LET c1 == [ c EXCEPT !.rx = Append(@, frame) ]
    IN  CASE frame.opcode \in {"Text", "Binary"} ->
               LET payload == from_utf8(frame.payload)
               IN  IF ~payload.ok
                   THEN echo_ws_exit(c1, ws_enabled)
                   ELSE [ log_frame(c1, ws_enabled, payload.string)
                            EXCEPT !.task = "writing",
                                   !.pending = EchoFrame(frame.opcode, payload.string) ]
          [] frame.opcode = "Close" -> echo_ws_exit(c1, ws_enabled)
          [] OTHER -> c1

\* Mutant of echo_ws_frame: the catch-all arm breaks out of the loop.
echo_ws_frame_other_breaks(c, ws_enabled, frame) ==
    LET c1 == [ c EXCEPT !.rx = Append(@, frame) ]
    IN  CASE frame.opcode \in {"Text", "Binary"} ->
               LET payload == from_utf8(frame.payload)
               IN  IF ~payload.ok
                   THEN [ c1 EXCEPT !.task = "panicked" ]
                   ELSE [ log_frame(c1, ws_enabled, payload.string)
                            EXCEPT !.task = "writing",
                                   !.pending = EchoFrame(frame.opcode, payload.string) ]
          [] frame.opcode = "Close" -> echo_ws_exit(c1, ws_enabled)
          [] OTHER -> echo_ws_exit(c1, ws_enabled)

\* read_frame is Ok(frame): one pass of the loop body up to write_frame
echo_ws_frame(c, ws_enabled, frame) ==
    LET c1 == [ c EXCEPT !.rx = Append(@, frame) ]
    IN  CASE frame.opcode \in {"Text", "Binary"} ->
               LET payload == from_utf8(frame.payload)
               IN  IF ~payload.ok
                   THEN [ c1 EXCEPT !.task = "panicked" ]
                   ELSE [ log_frame(c1, ws_enabled, payload.string)
                            EXCEPT !.task = "writing",
                                   !.pending = EchoFrame(frame.opcode, payload.string) ]
          [] frame.opcode = "Close" -> echo_ws_exit(c1, ws_enabled)
          [] OTHER -> c1

\* read_frame is Err: the while-let ends
echo_ws_read_err(c, ws_enabled) == echo_ws_exit(c, ws_enabled)

\* write_frame is Ok
echo_ws_written(c, ws_enabled) ==
    log_duration([ c EXCEPT !.tx = Append(@, c.pending), !.pending = NoFrame,
                            !.task = "open" ], ws_enabled)

\* Mutant of echo_ws_write_err: the warning is logged but the `break` is
\* missing, so the loop goes on to the duration log and the next read.
echo_ws_write_err_continues(c, ws_enabled) ==
    log_duration([ warn(c, "Error sending ws frame")
                     EXCEPT !.pending = NoFrame, !.task = "open" ], ws_enabled)

\* Mutant of echo_ws_write_err: the duration is logged before the result of
\* write_frame is looked at.
echo_ws_write_err_logs_duration(c, ws_enabled) ==
    echo_ws_exit(warn(log_duration(c, ws_enabled), "Error sending ws frame"),
                 ws_enabled)

\* write_frame is Err(e)
echo_ws_write_err(c, ws_enabled) ==
    echo_ws_exit(warn(c, "Error sending ws frame"), ws_enabled)

UpgradeFutOk ==
    /\ conn.task = "awaiting"
    /\ conn.pc = "upgraded"
    /\ conn' = echo_ws_enter(conn, ws_logging_enabled)
    /\ twin' = echo_ws_enter(twin, TwinWsLogging)
    /\ UNCHANGED << server, http_log_level, ws_logging_enabled >>

\* The upgrade future is settled by the connection task, which is busy
\* inside websocket_upgrade until the handshake response is returned.
UpgradeFutErr ==
    /\ conn.task = "awaiting"
    /\ conn.pc \in {"body", "upgraded"}
    /\ conn' = UpgradeFutErrStep(conn)
    /\ twin' = UpgradeFutErrStep(twin)
    /\ UNCHANGED << server, http_log_level, ws_logging_enabled >>

ReadFrame(frame) ==
    /\ conn.task = "open"
    /\ Len(conn.rx) < MaxFrames
    /\ read_frame_ok(frame)
    /\ conn' = echo_ws_frame(conn, ws_logging_enabled, frame)
    /\ twin' = echo_ws_frame(twin, TwinWsLogging, frame)
    /\ UNCHANGED << server, http_log_level, ws_logging_enabled >>

ReadErr ==
    /\ conn.task = "open"
    /\ conn' = echo_ws_read_err(conn, ws_logging_enabled)
    /\ twin' = echo_ws_read_err(twin, TwinWsLogging)
    /\ UNCHANGED << server, http_log_level, ws_logging_enabled >>

WriteOk ==
    /\ conn.task = "writing"
    /\ conn' = echo_ws_written(conn, ws_logging_enabled)
    /\ twin' = echo_ws_written(twin, TwinWsLogging)
    /\ UNCHANGED << server, http_log_level, ws_logging_enabled >>

WriteErr ==
    /\ conn.task = "writing"
    /\ conn' = echo_ws_write_err(conn, ws_logging_enabled)
    /\ twin' = echo_ws_write_err(twin, TwinWsLogging)
    /\ UNCHANGED << server, http_log_level, ws_logging_enabled >>

Next ==
    \/ \E request \in Requests : Call(request)
    \/ UpgradeReturn
    \/ BodyChunk
    \/ EndOfStream
    \/ \E request \in Requests : LibCall(request)
    \/ LibSent
    \/ UpgradeFutOk
    \/ UpgradeFutErr
    \/ \E frame \in Frames : ReadFrame(frame)
    \/ ReadErr
    \/ WriteOk
    \/ WriteErr

Spec == Init /\ [][Next]_vars

\* ================================================================ claims

IsData(frame) == frame.opcode \in DataOpCodes
IsCloseFrame(frame) == frame.opcode = "Close"
IsEstablished(event) == event.ev = "established"
IsClosed(event) == event.ev = "closed"

\* opcode and payload of every frame of a sequence, in order
OpcodesAndPayloads(frames) ==
    [ i \in 1..Len(frames) |->
        [ opcode |-> frames[i].opcode, payload |-> frames[i].payload ] ]

Established(c) == Len(SelectSeq(c.wsCalls, IsEstablished))
Closed(c) == Len(SelectSeq(c.wsCalls, IsClosed))

\* ---- C1
\* C1: the response of the HTTP echo path to a non-upgrade request has
\* status 200, the request's version, exactly the request's headers and
\* exactly the request's body.
C1_EchoIsExact ==
    (conn.branch \in {"echo", "lib_echo"} /\ conn.req # NoReq) =>
        /\ conn.resp.status = 200
        /\ conn.resp.version = conn.req.version
        /\ conn.resp.headers = conn.req.headers
        /\ conn.resp.body = conn.req.body

\* The same statement for the echo of service.rs alone.
C1_ServiceEchoIsExact ==
    (conn.branch = "echo" /\ conn.req # NoReq) =>
        /\ conn.resp.status = 200
        /\ conn.resp.version = conn.req.version
        /\ conn.resp.headers = conn.req.headers
        /\ conn.resp.body = conn.req.body

\* ---- C2
\* C2: in a session in which no write has failed, whenever the loop is not
\* in the middle of a write, the frames written are, one for one and in
\* order, the Text and Binary frames received, with the same opcode and the
\* same payload bytes, whatever the payload bytes are.
C2_EveryDataFrameEchoed ==
    (conn.sessions > 0 /\ conn.task # "writing" /\ conn.warns = <<>>) =>
        OpcodesAndPayloads(conn.tx)
            = OpcodesAndPayloads(SelectSeq(conn.rx, IsData))

\* ---- C3
\* C3 (as claimed): once the unit spawned for a successfully negotiated
\* upgrade has got past the upgrade future, there is exactly one handshake
\* response and exactly one streaming session.
C3_ExactlyOneSession ==
    (conn.branch = "upgrade" /\ conn.task \notin {"none", "awaiting"}) =>
        conn.sessions = 1

\* C3 (amended): a successfully negotiated upgrade spawns exactly one unit
\* and returns exactly one handshake response (status 101); the unit runs at
\* most one streaming session: exactly one once the upgrade future is Ok,
\* none, with a warning, when the upgrade future is an error.
C3_OneUnitAtMostOneSession ==
    conn.branch = "upgrade" =>
        /\ conn.spawned = 1
        /\ conn.respCount <= 1
        /\ conn.pc \in {"spawned", "body", "upgraded"}
        /\ conn.pc \in {"body", "upgraded"} =>
               conn.respCount = 1 /\ conn.resp.status = 101
        /\ conn.task \in {"awaiting", "open", "writing", "closed", "panicked",
                          "upgrade_failed"}
        /\ conn.task \in {"open", "writing", "closed", "panicked"} => conn.sessions = 1
        /\ conn.task = "awaiting" => conn.sessions = 0
        /\ conn.task = "upgrade_failed" =>
               /\ conn.sessions = 0
               /\ conn.warns = << "Failed to establish websocket connection" >>

C3_Witness ==
    /\ conn.branch = "upgrade"
    /\ conn.pc = "upgraded"
    /\ conn.respCount = 1
    /\ conn.task = "writing"
    /\ conn.sessions = 1

\* ---- C4
\* C4: a streaming session that has ended has made exactly one established
\* event, first, and exactly one closed event, last; no session ever has two
\* of either, or a closed event without an established one.
C4_EstablishedClosedPaired ==
    conn.sessions > 0 =>
        /\ Established(conn) = 1
        /\ IsEstablished(conn.wsCalls[1])
        /\ Closed(conn) <= 1
        /\ conn.task \in {"closed", "panicked"} =>
               /\ Closed(conn) = 1
               /\ IsClosed(conn.wsCalls[Len(conn.wsCalls)])

\* ---- C5
\* C5: every request the dispatcher has finished with has produced exactly
\* one response, in the echo branch, the successful-upgrade branch and the
\* failed-upgrade branch; no request produces two, and the unit serving the
\* request never ends without one.
C5_ExactlyOneResponse ==
    server = "EchoService" =>
        /\ conn.respCount <= 1
        /\ conn.pc # "panicked"
        /\ conn.pc \in {"body", "upgraded"} =>
               /\ conn.respCount = 1
               /\ conn.resp # NoResp
               /\ conn.branch \in {"echo", "upgrade", "upgrade_failed"}
        /\ conn.pc = "spawned" => (conn.respCount = 0 /\ ENABLED UpgradeReturn)

C5_Witness ==
    /\ server = "EchoService"
    /\ conn.pc = "body"
    /\ conn.branch = "upgrade_failed"
    /\ conn.respCount = 1
    /\ conn.reqCount = 2

\* ---- C6
\* C6: a request without the Connection: upgrade / Upgrade: websocket pair
\* is answered by the echo handler with 200, never 400, and no unit is
\* spawned and no streaming session started for it.
LacksNegotiationHeaders(request) ==
    ~( <<"connection", "upgrade">> \in request.headers
       /\ <<"upgrade", "websocket">> \in request.headers )

C6_PlainRequestIsEchoed ==
    (conn.req # NoReq /\ LacksNegotiationHeaders(conn.req)) =>
        /\ conn.branch \in {"echo", "lib_echo"}
        /\ conn.resp.status = 200
        /\ conn.respCount = 1
        /\ conn.spawned = 0
        /\ conn.sessions = 0
        /\ conn.task = "none"

C6_Witness ==
    /\ server = "EchoService"
    /\ conn.req # NoReq
    /\ LacksNegotiationHeaders(conn.req)
    /\ <<"upgrade", "websocket">> \in conn.req.headers
    /\ <<"sec-websocket-version", "12">> \in conn.req.headers
    /\ conn.resp.status = 200

\* ---- C7
\* C7: an upgrade request whose negotiation fails is answered 400 with the
\* failure description as the body, and no unit is spawned and no streaming
\* session created for it.
FailureDescription(request) ==
    IF \A h \in request.headers : h[1] # "sec-websocket-key"
    THEN "Sec-WebSocket-Key header is missing"
    ELSE "Invalid Sec-WebSocket-Version header"

NegotiationFails(request) ==
    /\ ~LacksNegotiationHeaders(request)
    /\ \/ \A h \in request.headers : h[1] # "sec-websocket-key"
       \/ <<"sec-websocket-version", "13">> \notin request.headers

C7_FailedUpgradeIs400 ==
    (conn.req # NoReq /\ server = "EchoService" /\ NegotiationFails(conn.req)) =>
        /\ conn.branch = "upgrade_failed"
        /\ conn.resp.status = 400
        /\ conn.resp.body = << FailureDescription(conn.req) >>
        /\ conn.spawned = 0
        /\ conn.sessions = 0
        /\ conn.task = "none"

C7_Witness ==
    /\ server = "EchoService"
    /\ conn.req # NoReq
    /\ NegotiationFails(conn.req)
    /\ conn.resp.status = 400
    /\ conn.resp.body = << "Invalid Sec-WebSocket-Version header" >>
    /\ conn.sent = 1

\* ---- C8
\* C8: once a Close frame has been received the session is Closed: the Close
\* frame is the last frame read, it is not echoed, every frame written was
\* written for a Text or Binary frame read before it, and exactly one closed
\* event has been made; when the Close frame is the first frame, nothing was
\* written at all.
C8_CloseEndsSession ==
    \A i \in 1..Len(conn.rx) :
        IsCloseFrame(conn.rx[i]) =>
            /\ i = Len(conn.rx)
            /\ conn.task = "closed"
            /\ conn.pending = NoFrame
            /\ \A j \in 1..Len(conn.tx) : ~IsCloseFrame(conn.tx[j])
            /\ Len(conn.tx) = Len(SelectSeq(SubSeq(conn.rx, 1, i - 1), IsData))
            /\ i = 1 => conn.tx = <<>>
            /\ Closed(conn) = 1
            /\ IsClosed(conn.wsCalls[Len(conn.wsCalls)])
            /\ ws_logging_enabled =>
                   Len(SelectSeq(conn.wsLog, IsClosed)) = 1
            /\ ~ENABLED (\E frame \in Frames : ReadFrame(frame))
            /\ ~ENABLED WriteOk

C8_Witness ==
    /\ Len(conn.rx) = 1
    /\ IsCloseFrame(conn.rx[1])
    /\ conn.tx = <<>>
    /\ conn.task = "closed"
    /\ ws_logging_enabled
    /\ Closed(conn) = 1

\* ---- C9
\* C9: the request-serving unit and the spawned streaming unit do not touch
\* each other: the handshake response can always be returned, whatever the
\* spawned unit has done so far; no step of the spawned unit (a frame, an I/O
\* error, a panic) changes the request-serving unit's position or its
\* response; and no step of the request-serving unit changes the spawned
\* unit.
RequestUnit(c) ==
    [ pc |-> c.pc, resp |-> c.resp, respCount |-> c.respCount,
      branch |-> c.branch, sent |-> c.sent, reqCount |-> c.reqCount ]

StreamingUnit(c) ==
    [ task |-> c.task, sessions |-> c.sessions, pending |-> c.pending,
      rx |-> c.rx, tx |-> c.tx, wsCalls |-> c.wsCalls ]

C9_IndependentUnits ==
    /\ [](conn.pc = "spawned" => ENABLED UpgradeReturn)
    /\ [][ (conn.task # "none" /\ StreamingUnit(conn') # StreamingUnit(conn)) =>
             RequestUnit(conn') = RequestUnit(conn) ]_vars
    /\ [][ (conn.task # "none" /\ RequestUnit(conn') # RequestUnit(conn)) =>
             StreamingUnit(conn') = StreamingUnit(conn) ]_vars

C9_Witness ==
    /\ conn.task = "panicked"
    /\ conn.pc = "upgraded"
    /\ conn.respCount = 1
    /\ conn.resp.status = 101

\* ---- C10
\* C10: what the connection does (its position, its response, the branch
\* taken, the frames read and written, the session's state and the logger
\* calls it makes) is, under every HTTP log level and either value of the ws
\* logging flag, what it does with logging off; only the log lines differ.
Behaviour(c) ==
    [ pc |-> c.pc, reqCount |-> c.reqCount, req |-> c.req, resp |-> c.resp,
      respCount |-> c.respCount, branch |-> c.branch, sent |-> c.sent,
      task |-> c.task, spawned |-> c.spawned, sessions |-> c.sessions,
      pending |-> c.pending, rx |-> c.rx, tx |-> c.tx,
      wsCalls |-> c.wsCalls, warns |-> c.warns,
      failedBefore |-> c.failedBefore ]

C10_LoggingOnlyObserves == Behaviour(conn) = Behaviour(twin)

C10_Witness ==
    /\ http_log_level = "UriHeadersBody"
    /\ ws_logging_enabled
    /\ Len(conn.tx) = 2
    /\ conn.wsLog # twin.wsLog
    /\ twin.wsLog = <<>>

\* ---- C11
\* What the three hooks log, at a given level, for the exchange the
\* connection is in: its request, its response once there is one, and the
\* body chunks consumed so far.
RECURSIVE ChunkLog(_, _, _)
ChunkLog(log_level, body, n) ==
    IF n = 0 THEN <<>>
    ELSE ChunkLog(log_level, body, n - 1) \o on_body_chunk(log_level, body[n])

ExchangeLog(log_level, c) ==
    on_request(log_level, c.req)
    \o (IF c.resp = NoResp THEN <<>>
        ELSE on_response(log_level, c.resp) \o ChunkLog(log_level, c.resp.body, c.sent))

Events(log) == { log[i] : i \in 1..Len(log) }

InExchange(c) == server = "EchoService" /\ c.req # NoReq

\* C11: for the same request, response and body chunks, the events logged
\* at None are among those logged at Uri, those among the ones logged at
\* UriHeaders, and those among the ones logged at UriHeadersBody; the log
\* the connection holds is the one of its own level.
C11_VerbosityMonotone ==
    InExchange(conn) =>
        /\ conn.httpLog = ExchangeLog(http_log_level, conn)
        /\ Events(ExchangeLog("None", conn)) \subseteq Events(ExchangeLog("Uri", conn))
        /\ Events(ExchangeLog("Uri", conn)) \subseteq Events(ExchangeLog("UriHeaders", conn))
        /\ Events(ExchangeLog("UriHeaders", conn))
               \subseteq Events(ExchangeLog("UriHeadersBody", conn))

C11_Witness ==
    /\ InExchange(conn)
    /\ http_log_level = "UriHeadersBody"
    /\ conn.pc = "body"
    /\ conn.sent = 2
    /\ Len(conn.httpLog) = 7

\* ---- C12
ExchangeComplete(c) ==
    InExchange(c) /\ c.pc = "body" /\ c.sent = Len(c.resp.body)

StrictlyMore(lower, higher, c) ==
    /\ Events(ExchangeLog(lower, c)) \subseteq Events(ExchangeLog(higher, c))
    /\ Events(ExchangeLog(lower, c)) # Events(ExchangeLog(higher, c))

\* C12 (as claimed): for every finished exchange, an empty body included,
\* each level logs strictly more events than the level below it.
C12_StrictSuperset ==
    ExchangeComplete(conn) =>
        /\ StrictlyMore("None", "Uri", conn)
        /\ StrictlyMore("Uri", "UriHeaders", conn)
        /\ StrictlyMore("UriHeaders", "UriHeadersBody", conn)

\* C12 (amended): Uri logs strictly more than None and UriHeaders strictly
\* more than Uri; UriHeadersBody logs strictly more than UriHeaders exactly
\* when a body chunk was consumed, and the same events when the body is
\* empty.
C12_StrictUnlessBodyEmpty ==
    ExchangeComplete(conn) =>
        /\ StrictlyMore("None", "Uri", conn)
        /\ StrictlyMore("Uri", "UriHeaders", conn)
        /\ conn.resp.body # <<>> => StrictlyMore("UriHeaders", "UriHeadersBody", conn)
        /\ conn.resp.body = <<>> =>
               Events(ExchangeLog("UriHeaders", conn))
                   = Events(ExchangeLog("UriHeadersBody", conn))

C12_Witness ==
    /\ ExchangeComplete(conn)
    /\ conn.resp.body = <<>>
    /\ conn.resp.status = 200
    /\ http_log_level = "UriHeadersBody"
    /\ Len(conn.httpLog) = 5

\* ---- C19
\* C19: the log of an exchange is, at None, empty; at Uri, the request
\* line, then the response status and the latency; at UriHeaders, the
\* request line and the request headers, then the response status, the
\* response headers and the latency; at UriHeadersBody, that and one line
\* per body chunk consumed.  A chunk is logged only at UriHeadersBody, and
\* the latency once per response at every level but None.
IsLatency(event) == event.ev = "latency"
IsBodyEvent(event) == event.ev = "body"

ExpectedLog(c) ==
    LET uri == [ ev |-> "request_uri", method |-> c.req.method, uri |-> c.req.uri ]
        inHeaders == [ ev |-> "headers", direction |-> "Incoming",
                       headers |-> c.req.headers ]
        status == [ ev |-> "response_uri", status |-> c.resp.status ]
        outHeaders == [ ev |-> "headers", direction |-> "Outgoing",
                        headers |-> c.resp.headers ]
        latency == [ ev |-> "latency" ]
        chunks == [ i \in 1..c.sent |-> [ ev |-> "body", chunk |-> c.resp.body[i] ] ]
    IN  CASE http_log_level = "None" -> <<>>
          [] http_log_level = "Uri" -> << uri, status, latency >>
          [] http_log_level = "UriHeaders" ->
                << uri, inHeaders, status, outHeaders, latency >>
          [] http_log_level = "UriHeadersBody" ->
                << uri, inHeaders, status, outHeaders, latency >> \o chunks

C19_EmissionPerLevel ==
    (InExchange(conn) /\ conn.pc = "body") =>
        /\ conn.httpLog = ExpectedLog(conn)
        /\ Len(SelectSeq(conn.httpLog, IsLatency))
               = IF http_log_level = "None" THEN 0 ELSE 1
        /\ Len(SelectSeq(conn.httpLog, IsBodyEvent))
               = IF http_log_level = "UriHeadersBody" THEN conn.sent ELSE 0

C19_Witness ==
    /\ InExchange(conn)
    /\ conn.pc = "body"
    /\ http_log_level = "Uri"
    /\ conn.sent = 2
    /\ conn.resp.status = 200
    /\ Len(conn.httpLog) = 3

\* ---- C13
\* What a connection that has served nothing yet answers to a request.
FreshAnswer(request) ==
    LET c == CallStep(InitConn, http_log_level, request)
    IN  IF c.pc = "spawned" THEN UpgradeReturnStep(c, http_log_level) ELSE c

\* C13: after a failed upgrade has been answered with 400 the connection
\* takes the next request, and answers it as a connection without that
\* failure would: same branch, same response, same unit spawned or not; a
\* request without the negotiation headers gets the 200 echo of itself.
C13_UsableAfterFailedUpgrade ==
    (server = "EchoService" /\ conn.failedBefore) =>
        /\ conn.pc # "panicked"
        /\ (conn.pc = "idle" /\ conn.reqCount < MaxRequests) =>
               ENABLED (\E request \in Requests : Call(request))
        /\ (conn.req # NoReq /\ conn.pc = "body") =>
               /\ conn.branch = FreshAnswer(conn.req).branch
               /\ conn.resp = FreshAnswer(conn.req).resp
               /\ conn.respCount = 1
               /\ conn.spawned = FreshAnswer(conn.req).spawned
               /\ LacksNegotiationHeaders(conn.req) =>
                      conn.resp = [ status |-> 200, version |-> conn.req.version,
                                    headers |-> conn.req.headers,
                                    body |-> conn.req.body ]

C13_Witness ==
    /\ server = "EchoService"
    /\ conn.failedBefore
    /\ conn.pc = "body"
    /\ conn.branch = "echo"
    /\ conn.resp.status = 200
    /\ conn.resp.body = << "hi", "!" >>
    /\ conn.sent = 2

\* ---- C14
IsFrameEvent(event) == event.ev = "frame"
IsDuration(event) == event.ev = "duration"
IsWriteWarning(message) == message = "Error sending ws frame"
WriteFailed(c) == SelectSeq(c.warns, IsWriteWarning) # <<>>

\* C14: once the write of an echo has failed the session is closed: the
\* frame whose echo failed is the last one read, its echo is not among the
\* frames written, nothing more is read or written, its per-frame log is
\* not followed by a duration log, one warning is logged and the closed
\* event is emitted exactly once, as the last event.
C14_WriteFailureCloses ==
    WriteFailed(conn) =>
        /\ conn.task = "closed"
        /\ conn.pending = NoFrame
        /\ ~ENABLED (\E frame \in Frames : ReadFrame(frame))
        /\ ~ENABLED ReadErr
        /\ ~ENABLED WriteOk
        /\ ~ENABLED WriteErr
        /\ IsData(conn.rx[Len(conn.rx)])
        /\ Len(conn.tx) = Len(SelectSeq(conn.rx, IsData)) - 1
        /\ Len(SelectSeq(conn.warns, IsWriteWarning)) = 1
        /\ Closed(conn) = 1
        /\ IsClosed(conn.wsCalls[Len(conn.wsCalls)])
        /\ IsFrameEvent(conn.wsCalls[Len(conn.wsCalls) - 1])
        /\ Len(SelectSeq(conn.wsCalls, IsDuration)) = Len(conn.tx)
        /\ conn.wsLog = IF ws_logging_enabled THEN conn.wsCalls ELSE <<>>

C14_Witness ==
    /\ WriteFailed(conn)
    /\ ws_logging_enabled
    /\ Len(conn.rx) = 2
    /\ Len(conn.tx) = 1
    /\ conn.wsLog = << [ ev |-> "established" ],
                       [ ev |-> "frame", payload |-> << 104, 105 >> ],
                       [ ev |-> "duration" ],
                       [ ev |-> "frame", payload |-> << 195, 169 >> ],
                       [ ev |-> "closed" ] >>

\* ---- C15
\* The step in which read_frame fails in an Open session: the loop is left
\* from the read, with no frame received.
ReadFailureStep ==
    /\ conn.task = "open"
    /\ conn'.task # "open"
    /\ conn'.rx = conn.rx

\* C15: a read failure in an Open session closes it without another read:
\* the failure is logged as a warning, nothing is written afterwards and the
\* closed event is emitted.
C15_ReadFailureWarnsAndCloses ==
    [][ReadFailureStep =>
          /\ conn'.task = "closed"
          /\ conn'.tx = conn.tx
          /\ conn'.pending = NoFrame
          /\ conn'.wsCalls = Append(conn.wsCalls, [ ev |-> "closed" ])
          /\ Len(conn'.warns) = Len(conn.warns) + 1]_vars

\* ---- C16
NotText(frame) == IsData(frame) /\ ~IsUtf8(frame.payload)

IsOther(frame) == ~IsData(frame) /\ ~IsCloseFrame(frame)

\* The step in which a frame of another opcode is received.
OtherFrameStep ==
    /\ Len(conn'.rx) = Len(conn.rx) + 1
    /\ IsOther(conn'.rx[Len(conn'.rx)])

\* C17: receiving a frame that is neither Text, Binary nor Close changes
\* nothing but the frames read: the session stays Open, nothing is written
\* or logged, and the loop is back at the read, where the next frame is
\* taken.
C17_OtherOpcodeIgnored ==
    /\ [][OtherFrameStep =>
            /\ conn.task = "open"
            /\ conn' = [ conn EXCEPT !.rx = conn'.rx ]]_vars
    /\ []((conn.task = "open" /\ Len(conn.rx) < MaxFrames) =>
            \A frame \in Frames :
                read_frame_ok(frame) => ENABLED ReadFrame(frame))

C17_Witness ==
    /\ Len(conn.rx) = 2
    /\ conn.rx[1].opcode = "Pong"
    /\ conn.rx[2] = [ opcode |-> "Text", fin |-> TRUE, payload |-> << 104, 105 >> ]
    /\ OpcodesAndPayloads(conn.tx) = OpcodesAndPayloads(<< conn.rx[2] >>)
    /\ conn.wsCalls = << [ ev |-> "established" ],
                         [ ev |-> "frame", payload |-> << 104, 105 >> ],
                         [ ev |-> "duration" ] >>
    /\ conn.task = "open"

\* ---- C18
InOpen(c) == c.task \in {"open", "writing"}

\* The three transitions out of Open.
CloseReceivedStep ==
    /\ conn.task = "open"
    /\ Len(conn'.rx) = Len(conn.rx) + 1
    /\ IsCloseFrame(conn'.rx[Len(conn'.rx)])

WriteFailureStep ==
    /\ conn.task = "writing"
    /\ conn'.tx = conn.tx
    /\ conn'.warns = Append(conn.warns, "Error sending ws frame")

\* C18: a session goes from Open to Closed only, never back, and leaves
\* Open only by a received Close frame, a read failure or a write failure;
\* no other step (a timeout, a cancellation) ends it.
C18_OnlyOwnTransitions ==
    [][/\ conn.task = "closed" => conn'.task = "closed"
       /\ (InOpen(conn) /\ ~InOpen(conn')) =>
              /\ conn'.task = "closed"
              /\ \/ CloseReceivedStep
                 \/ ReadFailureStep
                 \/ WriteFailureStep]_vars

\* ---- C20
DataRead(c) == SelectSeq(c.rx, IsData)
FrameLogs(c) == Len(SelectSeq(c.wsCalls, IsFrameEvent))
DurationLogs(c) == Len(SelectSeq(c.wsCalls, IsDuration))

\* C20: the loop handles one frame at a time, in the order received: the
\* frames written are the echoes of a prefix of the Text/Binary frames
\* read, and while an echo is being written no frame is read; a per-frame
\* log comes before the write and a duration log right after a successful
\* one, so the duration logs are as many as the frames written and at most
\* one fewer than the per-frame logs.
C20_OneFrameAtATime ==
    /\ Len(conn.tx) <= Len(DataRead(conn))
    /\ Len(DataRead(conn)) <= Len(conn.tx) + 1
    /\ OpcodesAndPayloads(conn.tx) =
           SubSeq(OpcodesAndPayloads(DataRead(conn)), 1, Len(conn.tx))
    /\ conn.task = "open" => Len(conn.tx) = Len(DataRead(conn))
    /\ conn.task = "writing" =>
           /\ ~ENABLED (\E frame \in Frames : ReadFrame(frame))
           /\ ~ENABLED ReadErr
           /\ IsData(conn.rx[Len(conn.rx)])
           /\ conn.pending = EchoFrame(conn.rx[Len(conn.rx)].opcode,
                                       conn.rx[Len(conn.rx)].payload)
           /\ Len(conn.tx) = Len(DataRead(conn)) - 1
           /\ FrameLogs(conn) = Len(conn.tx) + 1
           /\ IsFrameEvent(conn.wsCalls[Len(conn.wsCalls)])
    /\ DurationLogs(conn) = Len(conn.tx)
    /\ DurationLogs(conn) <= FrameLogs(conn)
    /\ FrameLogs(conn) <= DurationLogs(conn) + 1
    /\ \A i \in 1..Len(conn.wsCalls) :
           /\ IsDuration(conn.wsCalls[i]) =>
                  i > 1 /\ IsFrameEvent(conn.wsCalls[i - 1])
           /\ IsFrameEvent(conn.wsCalls[i]) =>
                  /\ i > 1
                  /\ \/ IsEstablished(conn.wsCalls[i - 1])
                     \/ IsDuration(conn.wsCalls[i - 1])

C20_Witness ==
    /\ Len(conn.rx) = 2
    /\ conn.rx[1].opcode = "Text"
    /\ conn.rx[2].opcode = "Binary"
    /\ conn.rx[1].payload # conn.rx[2].payload
    /\ OpcodesAndPayloads(conn.tx) = OpcodesAndPayloads(conn.rx)
    /\ FrameLogs(conn) = 2
    /\ DurationLogs(conn) = 2
    /\ IsDuration(conn.wsCalls[Len(conn.wsCalls)])
    /\ ws_logging_enabled
    /\ conn.wsLog = conn.wsCalls

====
